---- MODULE Spec2Model ----
(***************************************************************************)
(* The blob storage adapters of src/client/blob_storage.rs:                *)
(* BlobStorage (live) and BlobStorageDryRun, the two implementations of    *)
(* self_encryption's Storage trait, running as concurrent asynchronous     *)
(* calls against one shared network Client.                                *)
(*                                                                         *)
(* A call is modelled from its entry up to its first await as one action,  *)
(* and every await on the client as one further action, so that calls of   *)
(* different tasks interleave exactly at the awaits of the code.           *)
(***************************************************************************)
EXTENDS Integers, Sequences, FiniteSets, TLC

\* xor_name::XOR_NAME_LEN, the length of a name in bytes.
XOR_NAME_LEN == 32

\* Number of distinct contents offered to put / generate_address.
NumData == 2
\* The concurrent callers: two tasks of the self-encryptor, each running one
\* adapter call at a time.
Tasks == {"t1", "t2"}
\* The candidate public keys of the client's keypair.
Keys == {0, 1}
NoKey == 0 - 1

\* The i-th byte string over {0, 1}, shortest first:
\* <<>>, <<0>>, <<1>>, <<0,0>>, <<1,0>>, ...
RECURSIVE Content(_)
Content(i) == IF i = 0 THEN <<>> ELSE <<(i - 1) % 2>> \o Content((i - 1) \div 2)

Data == {Content(i) : i \in 0..(NumData - 1)}

VARIABLES
    ownerKey,   \* Client: the public key of the client's keypair
    store,      \* network: the set of blobs the network holds
    task,       \* per task: the adapter call in progress or just returned
    putOk       \* history: <<published, data>> of every put that returned Ok

vars == <<ownerKey, store, task, putOk>>

----------------------------------------------------------------------------
(* safe_nd blobs and xor names                                             *)

\* XorName of a content: stands for the SHA3-256 digest. It is a fixed
\* length, deterministic encoding without collisions on the contents used.
XorNameFromContent(c) ==
    [i \in 1..XOR_NAME_LEN |->
        IF i = 1 THEN Len(c) ELSE IF i - 1 <= Len(c) THEN c[i - 1] ELSE 0]

\* The bytes a private blob is named by: the value together with its owner.
SerialiseOwned(data, owner) == data \o <<owner>>

PublicBlobNew(data) ==
    [tag |-> "Public", name |-> XorNameFromContent(data),
     value |-> data, owner |-> NoKey]

PrivateBlobNew(data, owner) ==
    [tag |-> "Private", name |-> XorNameFromContent(SerialiseOwned(data, owner)),
     value |-> data, owner |-> owner]

NoBlob == [tag |-> "None", name |-> <<>>, value |-> <<>>, owner |-> NoKey]

\* BlobAddress::Public(name) / BlobAddress::Private(name)
BlobAddress(tag, name) == [tag |-> tag, name |-> name]

\* Blob::address()
AddressOf(blob) == BlobAddress(blob.tag, blob.name)

----------------------------------------------------------------------------
(* errors and results                                                      *)

CoreError(kind, msg) == [kind |-> kind, msg |-> msg]
NoError == CoreError("None", "")

SizeError == CoreError("Unexpected", "Requested name is incorrect size.")
DryRunError == CoreError("Unexpected", "Cannot get from storage since it's a dry run.")
DataNotFound == CoreError("DataNotFound", "")
NetworkError == CoreError("NetworkError", "")

\* impl From<CoreError> for BlobStorageError
BlobStorageErrorFrom(error) == [boxed |-> error]

\* Result<Vec<u8>, BlobStorageError> and Result<(), BlobStorageError>;
\* the unit payload is the empty sequence.
Ok(v) == [ok |-> TRUE, val |-> v, err |-> BlobStorageErrorFrom(NoError)]
Err(e) == [ok |-> FALSE, val |-> <<>>, err |-> e]
NoResult == [ok |-> FALSE, val |-> <<>>, err |-> BlobStorageErrorFrom(NoError)]

\* Result<Blob, CoreError> of the client
ClientOk(blob) == [ok |-> TRUE, blob |-> blob, err |-> NoError]
ClientErr(e) == [ok |-> FALSE, blob |-> NoBlob, err |-> e]

\* What a task keeps of the result of its client call: whether it succeeded
\* and the error it failed with.
Outcome(cres) == [ok |-> cres.ok, err |-> cres.err]
NoClientResult == Outcome(ClientErr(NoError))

----------------------------------------------------------------------------
(* the network client                                                      *)

\* Client::get_blob(address, None, None)
ClientGetBlob(address) ==
    IF \E b \in store : AddressOf(b) = address
    THEN ClientOk(CHOOSE b \in store : AddressOf(b) = address)
    ELSE ClientErr(DataNotFound)

\* Client::store_blob(blob): the outcomes of the call.
ClientStoreOutcomes(blob) == {ClientOk(blob), ClientErr(NetworkError)}

\* The network after store_blob(blob) returned cres: blobs are immutable, an
\* address already held keeps its blob.
StoreAfter(blob, cres) ==
    IF cres.ok /\ ~(\E b \in store : AddressOf(b) = AddressOf(blob))
    THEN store \cup {blob}
    ELSE store

----------------------------------------------------------------------------
(* adapters and calls                                                      *)

\* BlobStorage::new(client, published): every adapter holds the one shared
\* client.
BlobStorageNew(published) == [kind |-> "Live", published |-> published]

\* BlobStorageDryRun::new(client, published)
BlobStorageDryRunNew(published) == [kind |-> "DryRun", published |-> published]

Idle ==
    [pc |-> "idle", op |-> "none", self |-> BlobStorageNew(TRUE),
     name |-> <<>>, data |-> <<>>, blob |-> NoBlob,
     cres |-> NoClientResult, result |-> NoResult,
     nGetBlob |-> 0, nStoreBlob |-> 0, nPublicKey |-> 0]

\* A task may start a call when it runs none.
Free(t) == task[t].pc = "idle"

Begin(op, self, name, data) ==
    [Idle EXCEPT !.op = op, !.self = self, !.name = name, !.data = data]

Init ==
    /\ ownerKey \in Keys
    /\ store = {}
    /\ task = [t \in Tasks |-> Idle]
    /\ putOk = {}

\* The names offered to get: the names of the blobs of every content, and
\* names one byte too short and one byte too long.
ValidNames ==
    {PublicBlobNew(d).name : d \in Data}
        \cup {PrivateBlobNew(d, ownerKey).name : d \in Data}
ShortName == SubSeq(XorNameFromContent(<<>>), 1, XOR_NAME_LEN - 1)
LongName == XorNameFromContent(<<>>) \o <<0>>
GetNames == ValidNames \cup {ShortName, LongName}

\* The names offered to put beside the data: the content's own hash, and a
\* name that is no xor name at all.
PutNames(data) == {XorNameFromContent(data), <<>>}

----------------------------------------------------------------------------
(* BlobStorage                                                             *)

\* Mutant of GetNameIsIncorrectSize: only names that are too short are refused.
GetNameIsIncorrectSize_OnlyShort(name) == Len(name) < XOR_NAME_LEN

\* Mutant of GetNameIsIncorrectSize: only names that are too long are refused.
GetNameIsIncorrectSize_OnlyLong(name) == Len(name) > XOR_NAME_LEN

\* get: the check of the name's size
GetNameIsIncorrectSize(name) == Len(name) # XOR_NAME_LEN

\* Mutant of GetAddress: the published flag is not consulted.
GetAddress_AlwaysPublic(self, name) == BlobAddress("Public", name)

\* get: the address asked of the client
GetAddress(self, name) ==
    IF self.published THEN BlobAddress("Public", name) ELSE BlobAddress("Private", name)

\* Mutant of GetResult: a failure of the client is returned as empty content.
GetResult_SwallowsError(cres) ==
    IF cres.ok THEN Ok(cres.blob.value) ELSE Ok(<<>>)

\* get: the match on the result of client.get_blob
GetResult(cres) ==
    IF cres.ok THEN Ok(cres.blob.value) ELSE Err(BlobStorageErrorFrom(cres.err))

\* put: the match on the result of client.store_blob
PutResult(cres) ==
    IF cres.ok THEN Ok(<<>>) ELSE Err(BlobStorageErrorFrom(cres.err))

\* Mutant of PutBlob: the published flag is not consulted.
PutBlob_AlwaysPublic(self, name, data, owner) == PublicBlobNew(data)

\* Mutant of PutBlob: the blob is stored under the name passed to put.
PutBlob_UsesName(self, name, data, owner) ==
    [(IF self.published THEN PublicBlobNew(data) ELSE PrivateBlobNew(data, owner))
        EXCEPT !.name = name]

\* put: the blob built from the call's arguments; owner is the key the
\* client returned, asked for only when the adapter is not published
PutBlob(self, name, data, owner) ==
    IF self.published THEN PublicBlobNew(data) ELSE PrivateBlobNew(data, owner)

\* generate_address: the blob whose name is returned
GenerateAddressBlob(self, data, owner) ==
    IF self.published THEN PublicBlobNew(data) ELSE PrivateBlobNew(data, owner)

\* BlobStorage::get up to its await on client.get_blob
BlobStorage_get(t, self, name) ==
    /\ Free(t)
    /\ LET call == Begin("get", self, name, <<>>) IN
       IF GetNameIsIncorrectSize(name)
       THEN task' = [task EXCEPT ![t] =
                [call EXCEPT !.pc = "done",
                             !.result = Err(BlobStorageErrorFrom(SizeError))]]
       ELSE task' = [task EXCEPT ![t] =
                [call EXCEPT !.pc = "get_blob"]]
    /\ UNCHANGED <<ownerKey, store, putOk>>

\* BlobStorage::get from the completion of client.get_blob to its return
BlobStorage_get_blob(t) ==
    /\ task[t].pc = "get_blob"
    /\ LET cres == ClientGetBlob(GetAddress(task[t].self, task[t].name)) IN
       task' = [task EXCEPT ![t].pc = "done",
                            ![t].cres = Outcome(cres),
                            ![t].nGetBlob = @ + 1,
                            ![t].result = GetResult(cres)]
    /\ UNCHANGED <<ownerKey, store, putOk>>

\* BlobStorage::put up to its first await: on client.store_blob when
\* published, on client.public_key otherwise
BlobStorage_put(t, self, name, data) ==
    /\ Free(t)
    /\ LET call == Begin("put", self, name, data) IN
       IF self.published
       THEN task' = [task EXCEPT ![t] =
                [call EXCEPT !.pc = "store_blob",
                             !.blob = PutBlob(self, name, data, NoKey)]]
       ELSE task' = [task EXCEPT ![t] = [call EXCEPT !.pc = "put_public_key"]]
    /\ UNCHANGED <<ownerKey, store, putOk>>

\* BlobStorage::put from the completion of client.public_key to its await on
\* client.store_blob
BlobStorage_put_public_key(t) ==
    /\ task[t].pc = "put_public_key"
    /\ task' = [task EXCEPT ![t].pc = "store_blob",
                            ![t].nPublicKey = @ + 1,
                            ![t].blob = PutBlob(task[t].self, task[t].name,
                                                task[t].data, ownerKey)]
    /\ UNCHANGED <<ownerKey, store, putOk>>

\* BlobStorage::put from the completion of client.store_blob to its return
BlobStorage_store_blob(t) ==
    /\ task[t].pc = "store_blob"
    /\ \E cres \in ClientStoreOutcomes(task[t].blob) :
        /\ store' = StoreAfter(task[t].blob, cres)
        /\ putOk' = IF PutResult(cres).ok
                    THEN putOk \cup {<<task[t].self.published, task[t].data>>}
                    ELSE putOk
        /\ task' = [task EXCEPT ![t].pc = "done",
                                ![t].cres = Outcome(cres),
                                ![t].nStoreBlob = @ + 1,
                                ![t].result = PutResult(cres)]
    /\ UNCHANGED ownerKey

\* BlobStorage::generate_address up to its return when published, up to its
\* await on client.public_key otherwise
BlobStorage_generate_address(t, self, data) ==
    /\ Free(t)
    /\ LET call == Begin("generate_address", self, <<>>, data) IN
       IF self.published
       THEN task' = [task EXCEPT ![t] =
                [call EXCEPT !.pc = "done",
                             !.result = Ok(GenerateAddressBlob(self, data, NoKey).name)]]
       ELSE task' = [task EXCEPT ![t] = [call EXCEPT !.pc = "gen_public_key"]]
    /\ UNCHANGED <<ownerKey, store, putOk>>

\* BlobStorage::generate_address from the completion of client.public_key
\* to its return
BlobStorage_generate_address_public_key(t) ==
    /\ task[t].pc = "gen_public_key"
    /\ task[t].self.kind = "Live"
    /\ LET blob == GenerateAddressBlob(task[t].self, task[t].data, ownerKey) IN
       task' = [task EXCEPT ![t].pc = "done",
                            ![t].nPublicKey = @ + 1,
                            ![t].result = Ok(blob.name)]
    /\ UNCHANGED <<ownerKey, store, putOk>>

----------------------------------------------------------------------------
(* BlobStorageDryRun                                                       *)

\* Mutant of BlobStorageDryRun_get: the size of the name is checked first, as
\* the live adapter does.
BlobStorageDryRun_get_ChecksSize(t, self, name) ==
    /\ Free(t)
    /\ task' = [task EXCEPT ![t] =
            [Begin("get", self, name, <<>>) EXCEPT
                !.pc = "done",
                !.result = IF Len(name) # XOR_NAME_LEN
                           THEN Err(BlobStorageErrorFrom(SizeError))
                           ELSE Err(BlobStorageErrorFrom(DryRunError))]]
    /\ UNCHANGED <<ownerKey, store, putOk>>

\* BlobStorageDryRun::get
BlobStorageDryRun_get(t, self, name) ==
    /\ Free(t)
    /\ task' = [task EXCEPT ![t] =
            [Begin("get", self, name, <<>>) EXCEPT
                !.pc = "done",
                !.result = Err(BlobStorageErrorFrom(DryRunError))]]
    /\ UNCHANGED <<ownerKey, store, putOk>>

\* Mutant of BlobStorageDryRun_put: the blob is stored all the same.
BlobStorageDryRun_put_Stores(t, self, name, data) ==
    /\ Free(t)
    /\ task' = [task EXCEPT ![t] =
            [Begin("put", self, name, data) EXCEPT
                !.pc = "done", !.nStoreBlob = 1, !.result = Ok(<<>>)]]
    /\ LET blob == IF self.published THEN PublicBlobNew(data)
                   ELSE PrivateBlobNew(data, ownerKey)
       IN store' = StoreAfter(blob, ClientOk(blob))
    /\ UNCHANGED <<ownerKey, putOk>>

\* BlobStorageDryRun::put
BlobStorageDryRun_put(t, self, name, data) ==
    /\ Free(t)
    /\ task' = [task EXCEPT ![t] =
            [Begin("put", self, name, data) EXCEPT
                !.pc = "done", !.result = Ok(<<>>)]]
    /\ UNCHANGED <<ownerKey, store, putOk>>

\* Mutant of DryRunGenerateAddressBlob: the owner is left out of the name.
DryRunGenerateAddressBlob_IgnoresOwner(self, data, owner) == PublicBlobNew(data)

\* generate_address of the dry run: the blob whose name is returned
DryRunGenerateAddressBlob(self, data, owner) ==
    IF self.published THEN PublicBlobNew(data) ELSE PrivateBlobNew(data, owner)

\* Mutant of BlobStorageDryRun_generate_address: the key of the client is
\* awaited whatever the published flag.
BlobStorageDryRun_generate_address_AlwaysAwaits(t, self, data) ==
    /\ Free(t)
    /\ task' = [task EXCEPT ![t] =
            [Begin("generate_address", self, <<>>, data) EXCEPT
                !.pc = "gen_public_key"]]
    /\ UNCHANGED <<ownerKey, store, putOk>>

\* BlobStorageDryRun::generate_address up to its return when published, up
\* to its await on client.public_key otherwise
BlobStorageDryRun_generate_address(t, self, data) ==
    /\ Free(t)
    /\ LET call == Begin("generate_address", self, <<>>, data) IN
       IF self.published
       THEN task' = [task EXCEPT ![t] =
                [call EXCEPT !.pc = "done",
                             !.result = Ok(DryRunGenerateAddressBlob(self, data, NoKey).name)]]
       ELSE task' = [task EXCEPT ![t] = [call EXCEPT !.pc = "gen_public_key"]]
    /\ UNCHANGED <<ownerKey, store, putOk>>

\* BlobStorageDryRun::generate_address from the completion of
\* client.public_key to its return
BlobStorageDryRun_generate_address_public_key(t) ==
    /\ task[t].pc = "gen_public_key"
    /\ task[t].self.kind = "DryRun"
    /\ LET blob == DryRunGenerateAddressBlob(task[t].self, task[t].data, ownerKey) IN
       task' = [task EXCEPT ![t].pc = "done",
                            ![t].nPublicKey = @ + 1,
                            ![t].result = Ok(blob.name)]
    /\ UNCHANGED <<ownerKey, store, putOk>>

----------------------------------------------------------------------------

\* The caller takes the result of a returned call; its task is free again.
Return(t) ==
    /\ task[t].pc = "done"
    /\ task' = [task EXCEPT ![t] = Idle]
    /\ UNCHANGED <<ownerKey, store, putOk>>

Next ==
    \E t \in Tasks :
        \/ /\ Free(t)
           /\ \E published \in BOOLEAN :
                \/ \E name \in GetNames :
                     BlobStorage_get(t, BlobStorageNew(published), name)
                \/ \E data \in Data : \E name \in PutNames(data) :
                     BlobStorage_put(t, BlobStorageNew(published), name, data)
                \/ \E data \in Data :
                     BlobStorage_generate_address(t, BlobStorageNew(published), data)
                \/ \E name \in GetNames :
                     BlobStorageDryRun_get(t, BlobStorageDryRunNew(published), name)
                \/ \E data \in Data : \E name \in PutNames(data) :
                     BlobStorageDryRun_put(t, BlobStorageDryRunNew(published), name, data)
                \/ \E data \in Data :
                     BlobStorageDryRun_generate_address(t, BlobStorageDryRunNew(published), data)
        \/ BlobStorage_get_blob(t)
        \/ BlobStorage_put_public_key(t)
        \/ BlobStorage_store_blob(t)
        \/ BlobStorage_generate_address_public_key(t)
        \/ BlobStorageDryRun_generate_address_public_key(t)
        \/ Return(t)

Spec == Init /\ [][Next]_vars

----------------------------------------------------------------------------
(* properties                                                              *)

Live(t) == task[t].self.kind = "Live"
DryRun(t) == task[t].self.kind = "DryRun"
Returned(t, op) == task[t].pc = "done" /\ task[t].op = op
NoClientCall(t) ==
    task[t].nGetBlob = 0 /\ task[t].nStoreBlob = 0 /\ task[t].nPublicKey = 0
Tag(published) == IF published THEN "Public" ELSE "Private"

C2_PutAddressIsGeneratedAddress ==
    \A t \in Tasks :
        (Returned(t, "put") /\ Live(t) /\ task[t].result.ok) =>
            /\ AddressOf(task[t].blob).tag = Tag(task[t].self.published)
            /\ Len(AddressOf(task[t].blob).name) = XOR_NAME_LEN
            /\ \A u \in Tasks :
                ( /\ Returned(u, "generate_address") /\ Live(u)
                  /\ task[u].self = task[t].self
                  /\ task[u].data = task[t].data )
                => task[u].result = Ok(AddressOf(task[t].blob).name)

\* C2 witness: a successful private put and a generate_address of the same
\* data on the same kind of adapter have both returned.
C2_Witness ==
    \E t, u \in Tasks :
        /\ Returned(t, "put") /\ Live(t) /\ task[t].result.ok
        /\ ~task[t].self.published
        /\ Returned(u, "generate_address") /\ Live(u)
        /\ task[u].self = task[t].self
        /\ task[u].data = task[t].data
        /\ task[t].data # <<>>

\* C3: dry-run isolation. A put or get call on the dry-run adapter returns in
\* the step that starts it, leaves the store as it was and has called no
\* operation of the client; put returns Ok with the unit payload.
C3_DryRunPutIsolated ==
    [][\A t \in Tasks :
        ( /\ task[t].pc = "idle"
          /\ task'[t].pc # "idle"
          /\ task'[t].self.kind = "DryRun"
          /\ task'[t].op \in {"put", "get"} )
        => /\ store' = store
           /\ task'[t].pc = "done"
           /\ task'[t].nGetBlob = 0
           /\ task'[t].nStoreBlob = 0
           /\ task'[t].nPublicKey = 0
           /\ task'[t].blob = NoBlob
           /\ (task'[t].op = "put" => task'[t].result = Ok(<<>>))]_vars

\* C3 witness: a dry-run put of a non-empty content has returned on an
\* unpublished adapter while the store holds a blob of a live put.
C3_Witness ==
    \E t \in Tasks :
        /\ Returned(t, "put") /\ DryRun(t)
        /\ ~task[t].self.published
        /\ task[t].data # <<>>
        /\ store # {}
        /\ \A b \in store : b.value # task[t].data

\* C4: generate_address agrees across the adapters. Two returned
\* generate_address calls with the same published flag and the same data
\* (the client being shared) carry the same identifier, whether the adapters
\* are live or dry-run, and the identifier has the length of a name.
C4_GenerateAddressAgrees ==
    \A t, u \in Tasks :
        ( /\ Returned(t, "generate_address")
          /\ Returned(u, "generate_address")
          /\ task[t].self.published = task[u].self.published
          /\ task[t].data = task[u].data )
        => /\ task[t].result = task[u].result
           /\ task[t].result.ok
           /\ Len(task[t].result.val) = XOR_NAME_LEN

\* C4 witness: a live and a dry-run generate_address of the same non-empty
\* data on unpublished adapters have both returned.
C4_Witness ==
    \E t, u \in Tasks :
        /\ Returned(t, "generate_address") /\ Live(t)
        /\ Returned(u, "generate_address") /\ DryRun(u)
        /\ ~task[t].self.published /\ ~task[u].self.published
        /\ task[t].data = task[u].data
        /\ task[t].data # <<>>

\* C5: length validation on the live adapter. A live get whose name is not
\* XOR_NAME_LEN bytes long never waits for the client: it has returned the
\* size error and has called no operation of the client.
C5_LiveGetRejectsWrongSize ==
    \A t \in Tasks :
        (task[t].op = "get" /\ Live(t) /\ Len(task[t].name) # XOR_NAME_LEN) =>
            /\ task[t].pc = "done"
            /\ task[t].result = Err(BlobStorageErrorFrom(SizeError))
            /\ NoClientCall(t)

\* C5 witness: a live get of a name one byte too long has returned while the
\* store holds a blob.
C5_Witness ==
    \E t \in Tasks :
        /\ Returned(t, "get") /\ Live(t)
        /\ Len(task[t].name) = XOR_NAME_LEN + 1
        /\ store # {}

\* C6: the dry-run get always fails the same way. A returned dry-run get
\* carries the dry-run error, whatever its name, carries no content and has
\* called no operation of the client; a dry-run get never waits.
C6_DryRunGetUnsupported ==
    \A t \in Tasks :
        (task[t].op = "get" /\ DryRun(t)) =>
            /\ task[t].pc = "done"
            /\ task[t].result = Err(BlobStorageErrorFrom(DryRunError))
            /\ ~task[t].result.ok
            /\ NoClientCall(t)

\* C6 witness: a dry-run get of a name of the right length, which the store
\* holds a blob under, has returned.
C6_Witness ==
    \E t \in Tasks :
        /\ Returned(t, "get") /\ DryRun(t)
        /\ Len(task[t].name) = XOR_NAME_LEN
        /\ \E b \in store : AddressOf(b) = GetAddress(task[t].self, task[t].name)

\* C7 as stated: on both adapters a get of a name of the wrong length fails
\* with the size error and calls no operation of the client.
C7_Original ==
    \A t \in Tasks :
        (Returned(t, "get") /\ Len(task[t].name) # XOR_NAME_LEN) =>
            /\ task[t].result = Err(BlobStorageErrorFrom(SizeError))
            /\ NoClientCall(t)

\* C7 amended: on both adapters a returned get of a name of the wrong length
\* has failed and has called no operation of the client; the error is the
\* size error on the live adapter and the dry-run error on the dry-run
\* adapter.
C7_WrongSizeFailsLocally ==
    \A t \in Tasks :
        (Returned(t, "get") /\ Len(task[t].name) # XOR_NAME_LEN) =>
            /\ ~task[t].result.ok
            /\ NoClientCall(t)
            /\ task[t].result.err.boxed =
                 (IF Live(t) THEN SizeError ELSE DryRunError)

\* C7 witness: a live and a dry-run get of names of the wrong length have
\* both returned.
C7_Witness ==
    \E t, u \in Tasks :
        /\ Returned(t, "get") /\ Live(t) /\ Len(task[t].name) # XOR_NAME_LEN
        /\ Returned(u, "get") /\ DryRun(u) /\ Len(task[u].name) # XOR_NAME_LEN

\* C8: put ignores its name argument. Two live puts of the same data on
\* adapters with the same published flag have built the same blob at the
\* same address whatever their names, return the same result when the client
\* has answered both the same way, and the blob depends on the data and the
\* owner key only.
C8_PutIgnoresName ==
    \A t, u \in Tasks :
        ( /\ task[t].op = "put" /\ Live(t) /\ task[t].pc \in {"store_blob", "done"}
          /\ task[u].op = "put" /\ Live(u) /\ task[u].pc \in {"store_blob", "done"}
          /\ task[t].self = task[u].self
          /\ task[t].data = task[u].data )
        => /\ task[t].blob = task[u].blob
           /\ task[t].blob.value = task[t].data
           /\ task[t].blob.owner \in {NoKey, ownerKey}
           /\ ( /\ task[t].pc = "done" /\ task[u].pc = "done"
                /\ task[t].cres = task[u].cres )
              => task[t].result = task[u].result

\* C8 witness: two live puts of the same data with different names have both
\* returned Ok.
C8_Witness ==
    \E t, u \in Tasks :
        /\ Returned(t, "put") /\ Live(t) /\ task[t].result.ok
        /\ Returned(u, "put") /\ Live(u) /\ task[u].result.ok
        /\ task[t].self = task[u].self
        /\ task[t].data = task[u].data
        /\ task[t].name # task[u].name

\* C9: no retry and no swallowed error on the live adapter. A returned get
\* of a name of the right length has called get_blob exactly once and
\* store_blob never, a returned put has called store_blob exactly once and
\* get_blob never; the call returns Ok exactly when the client call did, and
\* otherwise the error wraps the error of the client.
C9_OneClientCallNoSwallow ==
    \A t \in Tasks :
        /\ (Returned(t, "get") /\ Live(t) /\ Len(task[t].name) = XOR_NAME_LEN) =>
              /\ task[t].nGetBlob = 1 /\ task[t].nStoreBlob = 0
              /\ task[t].result.ok = task[t].cres.ok
              /\ ~task[t].cres.ok =>
                    task[t].result = Err(BlobStorageErrorFrom(task[t].cres.err))
        /\ (Returned(t, "put") /\ Live(t)) =>
              /\ task[t].nStoreBlob = 1 /\ task[t].nGetBlob = 0
              /\ task[t].result.ok = task[t].cres.ok
              /\ ~task[t].cres.ok =>
                    task[t].result = Err(BlobStorageErrorFrom(task[t].cres.err))
        /\ task[t].nGetBlob <= 1
        /\ task[t].nStoreBlob <= 1

\* C9 witness: a live get has returned the not-found error of the client and
\* a live put has returned the network error of the client.
C9_Witness ==
    \E t, u \in Tasks :
        /\ Returned(t, "get") /\ Live(t)
        /\ task[t].result = Err(BlobStorageErrorFrom(DataNotFound))
        /\ Returned(u, "put") /\ Live(u)
        /\ task[u].result = Err(BlobStorageErrorFrom(NetworkError))

\* C10 as stated: on both adapters and for both variants generate_address
\* completes in one step and calls no operation of the client.
C10_Original ==
    \A t \in Tasks :
        task[t].op = "generate_address" =>
            task[t].pc = "done" /\ NoClientCall(t)

\* C10 amended: generate_address never calls get_blob or store_blob on
\* either adapter. On a published adapter it completes in one step without
\* any client call; on an unpublished adapter it awaits client.public_key
\* once, and calls it exactly once. A call waits only at the client calls
\* get_blob, store_blob and public_key.
C10_GenerateAddressAwaitsOnlyPublicKey ==
    \A t \in Tasks :
        /\ task[t].op = "generate_address" =>
              /\ task[t].nGetBlob = 0 /\ task[t].nStoreBlob = 0
              /\ task[t].blob = NoBlob
              /\ task[t].self.published =>
                    task[t].pc = "done" /\ task[t].nPublicKey = 0
              /\ ~task[t].self.published =>
                    \/ task[t].pc = "gen_public_key" /\ task[t].nPublicKey = 0
                    \/ task[t].pc = "done" /\ task[t].nPublicKey = 1
        /\ task[t].pc \in
              {"idle", "done", "get_blob", "put_public_key", "store_blob",
               "gen_public_key"}
        /\ task[t].pc \in {"get_blob", "store_blob"} => task[t].op \in {"get", "put"}

\* C10 witness: a dry-run generate_address on an unpublished adapter has
\* returned after its public_key call while a live one on a published
\* adapter has returned without any.
C10_Witness ==
    \E t, u \in Tasks :
        /\ Returned(t, "generate_address") /\ DryRun(t)
        /\ ~task[t].self.published /\ task[t].nPublicKey = 1
        /\ Returned(u, "generate_address") /\ Live(u)
        /\ task[u].self.published /\ task[u].nPublicKey = 0

====
